---------------------------- MODULE Spec2Model ----------------------------
(***************************************************************************)
(* Model of the pc-monitoring-system telemetry store and its derived views. *)
(*                                                                         *)
(*   backend/models/SystemInfo.js   the SystemInfo collection: schema      *)
(*                                  validation, getLatestData,             *)
(*                                  getOverviewStats, cleanupOldData        *)
(*   frontend/.../OverviewChart.js  fetchHistoricalOverview and             *)
(*                                  calculateHourlyAverages                 *)
(*   PCCard                         fetchHistoricalData and its effect      *)
(*                                                                         *)
(* Time is counted in minutes (the code counts milliseconds); percentages  *)
(* and uptimes are integers.  Averages are carried in hundredths of a      *)
(* percent, so that rounding to two decimals is an integer operation.      *)
(***************************************************************************)
EXTENDS Integers, Sequences, FiniteSets, TLC

VARIABLES
    store,    \* the SystemInfo collection: a set of documents
    clock,    \* Date.now(), in minutes
    nextId,   \* number of documents inserted so far (gives each its _id)
    ret,      \* what the most recent call returned (and its arguments)
    before,   \* history: the collection as it was when that call started
    hist,     \* history: what the call before that one returned
    runs,     \* the cleanupOldData calls whose deleteMany has not settled
    nextRun,  \* number of cleanupOldData calls the scheduler has made
    removed,  \* history: the documents deleted, and by which call
    pcId,           \* PCCard: the pcId prop
    effectPc,       \* PCCard: the pcId the installed effect closed over
    inflight,       \* PCCard: the getData requests not yet settled
    nextReq,        \* PCCard: number of getData requests issued
    historicalData, \* PCCard: state historicalData
    loading,        \* PCCard: state loading
    error,          \* PCCard: state error
    settled         \* PCCard history: the settled requests and their outcome

storeVars == <<store, clock, nextId, ret, before, hist>>
runVars == <<runs, nextRun, removed>>
cardVars ==
    <<pcId, effectPc, inflight, nextReq, historicalData, loading, error,
      settled>>

vars == <<storeVars, runVars, cardVars>>

----------------------------------------------------------------------------
(* Bounds of the model *)

\* number of documents ever inserted
MaxAppends == 3

\* the instants (minutes) at which the clock is observed; seen from the last
\* one, 49h, the others are 25h, 24h, 30min and 2min old
Instants == {1440, 1500, 2910, 2938, 2940}

\* one hour: 60 * 60 * 1000 ms in the code, 60 minutes here
Hour == 60

\* the trailing window of getOverviewStats and getData({ hours: 24 })
StatsHours == 24

\* the number of hourly buckets calculateHourlyAverages lays out
BucketCount == 24

\* number of getData requests a PCCard issues
MaxReqs == 3

\* number of cleanupOldData calls the scheduler makes
MaxRuns == 2

\* number of documents inserted while cleanups are interleaved
MaxConcAppends == 2

PcIds == {"pc-a", "pc-b"}

\* the retention horizons cleanupOldData is called with (hours; default 24)
CleanupHours == {1, 24}

\* liveness thresholds, in minutes: 5min / 24h and 30min / 25h
Thresholds ==
    { [offlineAfter |-> 5, inactiveAfter |-> 1440],
      [offlineAfter |-> 30, inactiveAfter |-> 1500] }

\* horizons after which an inactive source is purged, in minutes
MaxInactiveAges == {1440, 1500}

\* the order $sort uses on pcId
PcRank(p) == IF p = "pc-a" THEN 1 ELSE 2

\* request bodies offered to the ingestion interface; one of them carries a
\* createdAt of the client's own
Body(p, c, r, d, o, u) ==
    [pcId |-> p, cpu |-> c, ram |-> r, disk |-> d, os |-> o, uptime |-> u]

Payloads ==
    { Body("pc-a", 40, 30, 20, "linux", 10),
      Body("pc-a", 60, 50, 90, "linux", 0),
      Body("pc-b", 0, 100, 0, "win32", 5) @@ [createdAt |-> 60],
      Body("pc-a", 101, 30, 20, "linux", 10),
      Body("pc-a", 40, -1, 20, "linux", 10),
      Body("pc-b", 40, 30, 101, "win32", 10),
      Body("pc-b", 40, 30, 20, "win32", -1),
      Body("pc-b", 0, 100, 0, "", 5) }

----------------------------------------------------------------------------
(* Schema validation (mongoose validators of systemInfoSchema) *)

\* required: true on a String path fails on the empty string
IsRequiredMissing(v) == v = ""

\* min / max validators of a Number path
BelowMin(v, lo) == v < lo
AboveMax(v, hi) == v > hi

\* the same paths with the max validator of disk left out
ValidationErrorsNoDiskMax(doc) ==
    {f \in {"cpu", "ram"} : BelowMin(doc[f], 0) \/ AboveMax(doc[f], 100)}
    \cup {f \in {"disk"} : BelowMin(doc[f], 0)}
    \cup {f \in {"uptime"} : BelowMin(doc[f], 0)}
    \cup {f \in {"pcId", "os"} : IsRequiredMissing(doc[f])}

\* the paths of doc that fail validation
ValidationErrors(doc) ==
    {f \in {"cpu", "ram", "disk"} : BelowMin(doc[f], 0) \/ AboveMax(doc[f], 100)}
    \cup {f \in {"uptime"} : BelowMin(doc[f], 0)}
    \cup {f \in {"pcId", "os"} : IsRequiredMissing(doc[f])}

\* what the ingestion interface hands to the model constructor: the six
\* sample fields of the payload, never a timestamp
IngestedFields(body) ==
    [pcId |-> body.pcId, cpu |-> body.cpu, ram |-> body.ram,
     disk |-> body.disk, os |-> body.os, uptime |-> body.uptime]

\* default: Date.now() in place of Date.now: the default is the instant the
\* schema was defined
NewDocumentStampedOnce(fields, id, now) ==
    [id |-> id, pcId |-> fields.pcId, cpu |-> fields.cpu, ram |-> fields.ram,
     disk |-> fields.disk, os |-> fields.os, uptime |-> fields.uptime,
     createdAt |-> IF "createdAt" \in DOMAIN fields THEN fields.createdAt ELSE 1440,
     updatedAt |-> now]

\* the document mongoose builds: createdAt defaults to Date.now when the
\* fields carry none, and timestamps: true stamps updatedAt
NewDocument(fields, id, now) ==
    [id |-> id, pcId |-> fields.pcId, cpu |-> fields.cpu, ram |-> fields.ram,
     disk |-> fields.disk, os |-> fields.os, uptime |-> fields.uptime,
     createdAt |-> IF "createdAt" \in DOMAIN fields THEN fields.createdAt ELSE now,
     updatedAt |-> now]

NoCall == [op |-> "none"]

\* PCCard before its effect has run, and its initial state
NoEffect == "no-effect"
NoData == [req |-> 0, pcId |-> "none"]
NoError == "null"

----------------------------------------------------------------------------
(* getLatestData: $sort { pcId: 1, createdAt: -1 }, $group $first *)

\* a comes before b, or ties with it, when createdAt is sorted ascending
InSortOrderAscending(a, b) ==
    \/ PcRank(a.pcId) < PcRank(b.pcId)
    \/ a.pcId = b.pcId /\ a.createdAt <= b.createdAt

\* a comes before b, or ties with it, under { pcId: 1, createdAt: -1 }
InSortOrder(a, b) ==
    \/ PcRank(a.pcId) < PcRank(b.pcId)
    \/ a.pcId = b.pcId /\ a.createdAt >= b.createdAt

\* the arrays $sort may produce: documents with equal keys come in any order
RECURSIVE SortedArrays(_)
SortedArrays(coll) ==
    IF coll = {} THEN {<<>>}
    ELSE UNION { {<<m>> \o seq : seq \in SortedArrays(coll \ {m})} :
                 m \in {a \in coll : \A b \in coll : InSortOrder(a, b)} }

\* $group { _id: '$pcId', latestData: { $first: '$$ROOT' } } and $replaceRoot
GroupFirst(seq) ==
    {seq[k] : k \in {i \in 1..Len(seq) :
                        \A j \in 1..(i - 1) : seq[j].pcId # seq[i].pcId}}

GetLatestDataResults(coll) == {GroupFirst(seq) : seq \in SortedArrays(coll)}

----------------------------------------------------------------------------
(* Arithmetic *)

RECURSIVE SumField(_, _)
SumField(S, f) ==
    IF S = {} THEN 0
    ELSE LET x == CHOOSE y \in S : TRUE IN x[f] + SumField(S \ {x}, f)

\* num / den rounded to an integer, halves to the even neighbour ($round)
RoundHalfEven(num, den) ==
    LET q == num \div den
        r == num % den
    IN  IF 2 * r < den THEN q
        ELSE IF 2 * r > den THEN q + 1
        ELSE IF q % 2 = 0 THEN q ELSE q + 1

\* num / den rounded to an integer, halves upwards (Math.round)
RoundHalfUp(num, den) == (2 * num + den) \div (2 * den)

\* $avg then $round to 2 places, in hundredths
AvgRounded(S, f) == RoundHalfEven(100 * SumField(S, f), Cardinality(S))

\* dataUtils.calculateAverage over the values of field f: the mean, to two
\* decimals, in hundredths; 0 for no values
CalculateAverage(S, f) ==
    IF S = {} THEN 0 ELSE RoundHalfUp(100 * SumField(S, f), Cardinality(S))

----------------------------------------------------------------------------
(* getOverviewStats and cleanupOldData *)

\* a cutoff with the sign of the horizon slipped: Date.now() + hours
CutoffTimeAhead(now, hours) == now + hours * Hour

\* a cutoff that forgets one factor 60 of the hour
CutoffTimeMinutes(now, hours) == now - hours * (Hour \div 60)

\* new Date(Date.now() - hours * 60 * 60 * 1000)
CutoffTime(now, hours) == now - hours * Hour

\* $match { createdAt: { $gte: cutoffTime } }
MatchSince(coll, cutoff) == {s \in coll : s.createdAt >= cutoff}

\* counting the matched documents instead of their distinct pcIds
TotalPCsCountingDocuments(W) == Cardinality(W)

\* totalPCs: { $addToSet: '$pcId' } then { $size: '$totalPCs' }
TotalPCs(W) == Cardinality({s.pcId : s \in W})

\* the array aggregate() resolves to: no document when nothing matches
OverviewStats(coll, now) ==
    LET W == MatchSince(coll, CutoffTime(now, StatsHours))
    IN  IF W = {} THEN <<>>
        ELSE << [avgCpu |-> AvgRounded(W, "cpu"),
                 avgRam |-> AvgRounded(W, "ram"),
                 avgDisk |-> AvgRounded(W, "disk"),
                 totalPCs |-> TotalPCs(W)] >>

\* a filter { createdAt: { $lte: cutoffTime } }
DeleteManyUpTo(coll, cutoff) == {s \in coll : ~(s.createdAt <= cutoff)}

\* a filter { createdAt: { $gt: cutoffTime } }: the recent documents go
DeleteManyNewer(coll, cutoff) == {s \in coll : ~(s.createdAt > cutoff)}

\* deleteOne in place of deleteMany: only the first match goes
DeleteOne(coll, cutoff) ==
    LET M == {s \in coll : s.createdAt < cutoff}
    IN  IF M = {} THEN coll
        ELSE coll \ {CHOOSE s \in M : \A t \in M : s.id <= t.id}

\* updateMany in place of deleteMany: the old documents are stamped, not removed
DeleteManyMarking(coll, cutoff) ==
    {IF s.createdAt < cutoff THEN [s EXCEPT !.updatedAt = cutoff] ELSE s : s \in coll}

\* deleteMany({ createdAt: { $lt: cutoffTime } }): what remains
DeleteMany(coll, cutoff) == {s \in coll : ~(s.createdAt < cutoff)}

\* the documents the filter of deleteMany still matches
Matching(coll, cutoff) == coll \ DeleteMany(coll, cutoff)

----------------------------------------------------------------------------
(* getHistoricalData *)

\* the arrays .sort({ createdAt: 1 }) may produce
RECURSIVE SortedByCreatedAt(_)
SortedByCreatedAt(coll) ==
    IF coll = {} THEN {<<>>}
    ELSE UNION { {<<m>> \o seq : seq \in SortedByCreatedAt(coll \ {m})} :
                 m \in {a \in coll : \A b \in coll : a.createdAt <= b.createdAt} }

\* find({ pcId, createdAt: { $gte: cutoffTime } }).sort({ createdAt: 1 })
HistoricalDataResults(coll, p, now, hours) ==
    SortedByCreatedAt({s \in coll : s.pcId = p /\ s.createdAt >= CutoffTime(now, hours)})

----------------------------------------------------------------------------
(* Liveness classification *)

\* age <= offlineAfter counted as Offline already
StateOfStrict(age, thr) ==
    IF age < thr.offlineAfter THEN "Online"
    ELSE IF age <= thr.inactiveAfter THEN "Offline"
    ELSE "Inactive"

StateOf(age, thr) ==
    IF age <= thr.offlineAfter THEN "Online"
    ELSE IF age <= thr.inactiveAfter THEN "Offline"
    ELSE "Inactive"

\* one record per LatestState
Classify(latest, now, thr) ==
    {[pcId |-> r.pcId, state |-> StateOf(now - r.createdAt, thr)] : r \in latest}

----------------------------------------------------------------------------
(* calculateHourlyAverages *)

HourStart(now, i) == now - i * Hour
HourEnd(now, i) == now - (i - 1) * Hour

\* pcData.filter(pc => pcTime >= hourStart && pcTime < hourEnd)
PcsInHour(pcData, now, i) ==
    {pc \in pcData : pc.createdAt >= HourStart(now, i)
                     /\ pc.createdAt < HourEnd(now, i)}

\* a bucket pushed whether or not any PC reported in the hour
EmitAlways(pcsInHour) == TRUE

\* if (pcsInHour.length > 0)
EmitBucket(pcsInHour) == Cardinality(pcsInHour) > 0

\* toLocaleTimeString('en-US', { hour: '2-digit', minute: '2-digit',
\* hour12: false }), as <<hours, minutes>> of the day
HourLabel(t) == <<(t \div 60) % 24, t % 60>>

HourlyEntry(pcsInHour, hourStart) ==
    [hour |-> HourLabel(hourStart),
     cpu |-> CalculateAverage(pcsInHour, "cpu"),
     ram |-> CalculateAverage(pcsInHour, "ram"),
     disk |-> CalculateAverage(pcsInHour, "disk"),
     timestamp |-> hourStart]

\* the loop for (let i = 23; i >= 0; i--), from index i on
RECURSIVE HourlyFrom(_, _, _)
HourlyFrom(pcData, now, i) ==
    IF i < 0 THEN <<>>
    ELSE LET pcsInHour == PcsInHour(pcData, now, i)
             rest == HourlyFrom(pcData, now, i - 1)
         IN  IF EmitBucket(pcsInHour)
             THEN <<HourlyEntry(pcsInHour, HourStart(now, i))>> \o rest
             ELSE rest

CalculateHourlyAverages(pcData, now) == HourlyFrom(pcData, now, BucketCount - 1)

----------------------------------------------------------------------------
Init ==
    /\ store = {}
    /\ clock = 1440
    /\ nextId = 0
    /\ ret = NoCall
    /\ before = {}
    /\ hist = NoCall
    /\ runs = {}
    /\ nextRun = 0
    /\ removed = {}
    /\ pcId = "pc-a"
    /\ effectPc = NoEffect
    /\ inflight = {}
    /\ nextReq = 0
    /\ historicalData = NoData
    /\ loading = FALSE
    /\ error = NoError
    /\ settled = {}

\* time passes
Tick ==
    /\ \E t \in Instants : t > clock /\ clock' = t
    /\ ret' = [op |-> "tick"]
    /\ hist' = NoCall
    /\ before' = store
    /\ UNCHANGED <<store, nextId>>
    /\ UNCHANGED <<runVars, cardVars>>

\* append: new SystemInfo(body).save()
AppendSample ==
    /\ nextId < MaxAppends
    /\ \E body \in Payloads :
         LET errs == ValidationErrors(body)
             doc  == NewDocument(IngestedFields(body), nextId + 1, clock)
         IN  IF errs # {}
             THEN /\ ret' = [op |-> "append", input |-> body,
                             result |-> "ValidationError", errors |-> errs]
                  /\ UNCHANGED <<store, nextId>>
             ELSE /\ store' = store \cup {doc}
                  /\ nextId' = nextId + 1
                  /\ ret' = [op |-> "append", input |-> body,
                             result |-> "ok", errors |-> {}]
    /\ hist' = NoCall
    /\ before' = store
    /\ UNCHANGED clock
    /\ UNCHANGED <<runVars, cardVars>>

\* latestAll: SystemInfo.getLatestData()
GetLatestData ==
    /\ \E R \in GetLatestDataResults(store) :
         ret' = [op |-> "getLatestData", result |-> R]
    /\ hist' = NoCall
    /\ before' = store
    /\ UNCHANGED <<store, clock, nextId>>
    /\ UNCHANGED <<runVars, cardVars>>

\* overviewStats: SystemInfo.getOverviewStats()
GetOverviewStats ==
    /\ ret' = [op |-> "getOverviewStats", now |-> clock,
               result |-> OverviewStats(store, clock)]
    /\ hist' = NoCall
    /\ before' = store
    /\ UNCHANGED <<store, clock, nextId>>
    /\ UNCHANGED <<runVars, cardVars>>

\* runCleanup: SystemInfo.cleanupOldData(hours)
CleanupOldData ==
    /\ \E hours \in CleanupHours :
         LET kept == DeleteMany(store, CutoffTime(clock, hours))
         IN  /\ store' = kept
             /\ ret' = [op |-> "cleanupOldData", now |-> clock, hours |-> hours,
                        deletedCount |-> Cardinality(store) - Cardinality(kept)]
    /\ hist' = IF ret.op = "cleanupOldData" THEN ret ELSE NoCall
    /\ before' = store
    /\ UNCHANGED <<clock, nextId>>
    /\ UNCHANGED <<runVars, cardVars>>

\* classify(now, thresholds) over the latest sample of every source
ClassifySources ==
    /\ \E thr \in Thresholds, R \in GetLatestDataResults(store) :
         ret' = [op |-> "classify", now |-> clock, thresholds |-> thr,
                 result |-> Classify(R, clock, thr)]
    /\ hist' = NoCall
    /\ before' = store
    /\ UNCHANGED <<store, clock, nextId>>
    /\ UNCHANGED <<runVars, cardVars>>

\* fetchHistoricalOverview: response.data.latest is what getLatestData
\* resolved to; the hourly averages are laid out from the clock at that moment
FetchHistoricalOverview ==
    /\ \E R \in GetLatestDataResults(store) :
         ret' = [op |-> "fetchHistoricalOverview", now |-> clock,
                 result |-> CalculateHourlyAverages(R, clock)]
    /\ hist' = NoCall
    /\ before' = store
    /\ UNCHANGED <<store, clock, nextId>>
    /\ UNCHANGED <<runVars, cardVars>>

\* the historical query: SystemInfo.getHistoricalData(pcId, 24)
GetHistoricalData ==
    /\ \E p \in PcIds : \E R \in HistoricalDataResults(store, p, clock, StatsHours) :
         ret' = [op |-> "getHistoricalData", pcId |-> p, now |-> clock,
                 result |-> R]
    /\ hist' = NoCall
    /\ before' = store
    /\ UNCHANGED <<store, clock, nextId>>
    /\ UNCHANGED <<runVars, cardVars>>

Next ==
    \/ Tick
    \/ AppendSample
    \/ GetLatestData
    \/ GetHistoricalData
    \/ GetOverviewStats
    \/ CleanupOldData
    \/ ClassifySources
    \/ FetchHistoricalOverview

Spec == Init /\ [][Next]_vars

----------------------------------------------------------------------------
(* cleanupOldData as the scheduler and the database interleave it with       *)
(* ingestion: the cutoff is computed when the call is made, deleteMany        *)
(* removes the matching documents one at a time (each removal is atomic, the  *)
(* operation as a whole is not), and the call settles when nothing matches    *)
(* any more or when the database fails.                                       *)

\* the scheduler calls cleanupOldData(hours): nothing in it looks at the
\* calls that have not settled
StartCleanup ==
    /\ nextRun < MaxRuns
    /\ \E hours \in CleanupHours :
         runs' = runs \cup {[rid |-> nextRun + 1, hours |-> hours,
                             startedAt |-> clock,
                             cutoff |-> CutoffTime(clock, hours),
                             firstNewId |-> nextId + 1, deleted |-> 0]}
    /\ nextRun' = nextRun + 1
    /\ ret' = [op |-> "cleanupStarted", rid |-> nextRun + 1]
    /\ hist' = NoCall
    /\ before' = store
    /\ UNCHANGED <<store, clock, nextId, removed, cardVars>>

\* deleteMany removes one matching document
DeleteStep ==
    /\ \E r \in runs : \E d \in Matching(store, r.cutoff) :
         /\ store' = store \ {d}
         /\ runs' = (runs \ {r}) \cup {[r EXCEPT !.deleted = @ + 1]}
         /\ removed' = removed \cup
                         {[doc |-> d, rid |-> r.rid, firstNewId |-> r.firstNewId]}
    /\ ret' = [op |-> "deleteStep"]
    /\ hist' = NoCall
    /\ before' = store
    /\ UNCHANGED <<clock, nextId, nextRun, cardVars>>

\* deleteMany resolves with { deletedCount }
FinishCleanup ==
    /\ \E r \in runs :
         /\ Matching(store, r.cutoff) = {}
         /\ runs' = runs \ {r}
         /\ ret' = [op |-> "cleanupFinished", rid |-> r.rid,
                    firstNewId |-> r.firstNewId, deletedCount |-> r.deleted]
    /\ hist' = NoCall
    /\ before' = store
    /\ UNCHANGED <<store, clock, nextId, nextRun, removed, cardVars>>

\* the database becomes unavailable: deleteMany rejects, what it has removed
\* stays removed
FailCleanup ==
    /\ \E r \in runs :
         /\ runs' = runs \ {r}
         /\ ret' = [op |-> "cleanupFailed", rid |-> r.rid,
                    firstNewId |-> r.firstNewId, deletedCount |-> r.deleted]
    /\ hist' = NoCall
    /\ before' = store
    /\ UNCHANGED <<store, clock, nextId, nextRun, removed, cardVars>>

\* ingestion between the steps of the cleanups; a rejected body leaves no
\* trace in the collection and is left out here
AcceptedAppend ==
    /\ nextId < MaxConcAppends
    /\ AppendSample
    /\ ret'.result = "ok"

\* the clock as the interleaved steps see it: the instants 24h, 25h and 49h
CoarseTick ==
    /\ Tick
    /\ clock' \in {1440, 1500, 2940}

NextConc ==
    \/ CoarseTick
    \/ AcceptedAppend
    \/ StartCleanup
    \/ DeleteStep
    \/ FinishCleanup
    \/ FailCleanup

SpecConc == Init /\ [][NextConc]_vars

\* the scheduler calls cleanupOldData periodically: a cleanup that would
\* change something is not put off for ever
NextPeriodic == Tick \/ AcceptedAppend \/ CleanupOldData

SpecPeriodic == Init /\ [][NextPeriodic]_vars /\ WF_vars(CleanupOldData)

----------------------------------------------------------------------------
(* PCCard: fetchHistoricalData and the [pcId] effect.  A request is named by *)
(* its number and the pcId it was issued for, and so is the response that    *)
(* setHistoricalData stores.  The code between two awaits runs in one step.  *)

\* fetchHistoricalData up to the await, called from a closure over pcId p
StartFetch(p) ==
    /\ nextReq < MaxReqs
    /\ p /= ""
    /\ loading' = TRUE
    /\ error' = NoError
    /\ inflight' = inflight \cup {[req |-> nextReq + 1, pcId |-> p]}
    /\ nextReq' = nextReq + 1
    /\ UNCHANGED <<historicalData, settled>>

\* first render: the effect fetches and installs the interval
Mount ==
    /\ effectPc = NoEffect
    /\ StartFetch(pcId)
    /\ effectPc' = pcId
    /\ UNCHANGED <<pcId, storeVars, runVars>>

\* the pcId prop changes: the effect's cleanup clears the interval, and the
\* effect runs again from the new render
ChangePcId ==
    /\ effectPc /= NoEffect
    /\ \E p \in PcIds \ {pcId} :
          /\ pcId' = p
          /\ StartFetch(p)
          /\ effectPc' = p
    /\ UNCHANGED <<storeVars, runVars>>

\* the interval fires: it calls the fetchHistoricalData of the render that
\* installed it
TimerFire ==
    /\ effectPc /= NoEffect
    /\ StartFetch(effectPc)
    /\ UNCHANGED <<pcId, effectPc, storeVars, runVars>>

\* the Refresh button (disabled while loading) or the Retry button (rendered
\* when not loading)
ManualRefresh ==
    /\ effectPc /= NoEffect
    /\ ~loading
    /\ StartFetch(pcId)
    /\ UNCHANGED <<pcId, effectPc, storeVars, runVars>>

\* getData resolves: the try block after the await, then finally
Resolve ==
    /\ \E q \in inflight : \E success \in BOOLEAN :
          /\ inflight' = inflight \ {q}
          /\ historicalData' = IF success THEN q ELSE historicalData
          /\ settled' = settled \cup
                {[req |-> q.req, pcId |-> q.pcId,
                  outcome |-> IF success THEN "ok" ELSE "unsuccessful"]}
    /\ loading' = FALSE
    /\ UNCHANGED <<pcId, effectPc, nextReq, error, storeVars, runVars>>

\* getData rejects: the catch block, then finally
Reject ==
    /\ \E q \in inflight :
          /\ inflight' = inflight \ {q}
          /\ settled' = settled \cup
                {[req |-> q.req, pcId |-> q.pcId, outcome |-> "rejected"]}
    /\ error' = "error"
    /\ loading' = FALSE
    /\ UNCHANGED <<pcId, effectPc, nextReq, historicalData, storeVars, runVars>>

NextCard ==
    \/ Mount
    \/ ChangePcId
    \/ TimerFire
    \/ ManualRefresh
    \/ Resolve
    \/ Reject

SpecCard == Init /\ [][NextCard]_vars

----------------------------------------------------------------------------
(* Properties *)

SamplesOf(coll, p) == {s \in coll : s.pcId = p}

\* the samples of coll that no sample of the same source is newer than
NewestOf(coll, p) ==
    {m \in SamplesOf(coll, p) : \A s \in SamplesOf(coll, p) : s.createdAt <= m.createdAt}

\* avg (in hundredths) is the mean of field f over S, to two decimals
IsMeanOf(avg, S, f) ==
    LET n == Cardinality(S)
        d == avg * n - 100 * SumField(S, f)
    IN  n > 0 /\ 2 * d <= n /\ 2 * d >= -n

OffendingFields(body) ==
    {f \in {"cpu", "ram", "disk"} : body[f] < 0 \/ body[f] > 100}
    \cup {f \in {"uptime"} : body[f] < 0}

\* C1: append rejects a sample whose cpu, ram or disk is outside [0,100] or
\* whose uptime is negative with a validation error that names the offending
\* fields, and leaves the collection as it was; an accepted sample adds one
\* document whose pcId, cpu, ram, disk, os and uptime equal the input.
AppendValidates ==
    ret.op = "append" =>
        /\ OffendingFields(ret.input) # {} =>
              /\ ret.result = "ValidationError"
              /\ OffendingFields(ret.input) \subseteq ret.errors
        /\ ret.result = "ValidationError" => store = before
        /\ ret.result = "ok" =>
              \E s \in store :
                 /\ s \notin before
                 /\ store = before \cup {s}
                 /\ s.pcId = ret.input.pcId
                 /\ s.cpu = ret.input.cpu
                 /\ s.ram = ret.input.ram
                 /\ s.disk = ret.input.disk
                 /\ s.os = ret.input.os
                 /\ s.uptime = ret.input.uptime

\* a sample with disk = 101 is rejected while accepted samples are stored
AppendRejectedOutOfRange ==
    /\ ret.op = "append"
    /\ ret.result = "ValidationError"
    /\ ret.input.disk > 100
    /\ store # {}

\* C2: getLatestData returns, for every pcId that has a sample in the
\* collection, exactly one document, a stored sample of that pcId that none
\* of its samples is newer than; and nothing for a pcId without samples.
LatestIsNewestPerSource ==
    ret.op = "getLatestData" =>
        \A p \in PcIds :
            LET got == SamplesOf(ret.result, p)
            IN  IF SamplesOf(store, p) = {} THEN got = {}
                ELSE /\ Cardinality(got) = 1
                     /\ got \subseteq NewestOf(store, p)

\* latestAll on a source with samples at three different instants
LatestOfThreeInstants ==
    /\ ret.op = "getLatestData"
    /\ \E p \in PcIds :
          /\ Cardinality({s.createdAt : s \in SamplesOf(store, p)}) >= 3
          /\ \E r \in ret.result : r.pcId = p

\* C3: after cleanupOldData(hours) at time now the collection holds no
\* sample older than now - hours, and every sample that was not older than
\* that is still there, whatever its source.
CleanupDeletesExactlyTheOld ==
    ret.op = "cleanupOldData" =>
        LET cutoff == ret.now - ret.hours * 60
        IN  /\ \A s \in store : s.createdAt >= cutoff
            /\ \A s \in before : s.createdAt >= cutoff => s \in store
            /\ store \subseteq before

\* a 24h cleanup that deleted a sample 25h old and kept one exactly 24h old
\* of another source
CleanupAcrossTheCutoff ==
    /\ ret.op = "cleanupOldData"
    /\ ret.hours = 24
    /\ \E d \in before \ store, k \in store :
          /\ ret.now - d.createdAt = 25 * 60
          /\ ret.now - k.createdAt = 24 * 60
          /\ d.pcId # k.pcId

\* C4: a cleanup that directly follows a cleanup with the same now and the
\* same hours deletes nothing and leaves the collection as the first left it.
CleanupIdempotent ==
    (/\ ret.op = "cleanupOldData"
     /\ hist.op = "cleanupOldData"
     /\ hist.now = ret.now
     /\ hist.hours = ret.hours)
    => ret.deletedCount = 0 /\ store = before

\* the second of two identical cleanups, the first of which deleted samples
SecondCleanupAfterDeletion ==
    /\ ret.op = "cleanupOldData"
    /\ hist.op = "cleanupOldData"
    /\ hist.now = ret.now
    /\ hist.hours = ret.hours
    /\ hist.deletedCount > 0
    /\ store # {}

\* the entries of an array
Entries(seq) == {seq[k] : k \in 1..Len(seq)}

\* the stored samples in the hour that starts at t
StoredInHour(t) == {s \in store : s.createdAt >= t /\ s.createdAt < t + 60}

\* C5: every entry calculateHourlyAverages emits is backed by at least one
\* stored sample whose createdAt lies in the entry's hour, and when no stored
\* sample lies in any of the hours laid out the result is the empty array.
RollupEmitsNoEmptyBucket ==
    ret.op = "fetchHistoricalOverview" =>
        /\ \A b \in Entries(ret.result) : StoredInHour(b.timestamp) # {}
        /\ (\A s \in store : \/ s.createdAt < ret.now - 23 * 60
                             \/ s.createdAt >= ret.now + 60)
              => ret.result = <<>>

\* a rollup that emitted two of the 24 hours, the others being silent
RollupWithSilentHours ==
    /\ ret.op = "fetchHistoricalOverview"
    /\ Len(ret.result) = 2

\* C6: every entry's cpu, ram and disk is the mean over all the stored
\* samples, of all sources, whose createdAt lies in the entry's hour.
RollupAveragesAllSamples ==
    ret.op = "fetchHistoricalOverview" =>
        \A b \in Entries(ret.result) :
            /\ IsMeanOf(b.cpu, StoredInHour(b.timestamp), "cpu")
            /\ IsMeanOf(b.ram, StoredInHour(b.timestamp), "ram")
            /\ IsMeanOf(b.disk, StoredInHour(b.timestamp), "disk")

\* C7: the hours emitted start earliest first at whole bucket widths from
\* now - 24h, none extends outside [now - 24h, now), and every newest sample
\* of a source with createdAt in [now - 24h, now) is counted in exactly one.
RollupPartitionsTrailingDay ==
    ret.op = "fetchHistoricalOverview" =>
        LET windowStart == ret.now - 24 * 60
            res == ret.result
        IN  /\ \A k \in 1..Len(res) :
                  /\ res[k].timestamp >= windowStart
                  /\ res[k].timestamp + 60 <= ret.now
                  /\ (res[k].timestamp - windowStart) % 60 = 0
            /\ \A j, k \in 1..Len(res) :
                  j < k => res[j].timestamp + 60 <= res[k].timestamp
            /\ \A p \in PcIds : \A s \in NewestOf(store, p) :
                  (s.createdAt >= windowStart /\ s.createdAt < ret.now)
                  => Cardinality({k \in 1..Len(res) :
                                     /\ res[k].timestamp <= s.createdAt
                                     /\ s.createdAt < res[k].timestamp + 60}) = 1

FiveMinutesOneDay == [offlineAfter |-> 5, inactiveAfter |-> 1440]

\* C8: classify gives every source that has a sample exactly one record, whose
\* state depends only on the age of its newest sample: Online up to
\* offlineAfter, Offline above that up to inactiveAfter, Inactive beyond; a
\* source without samples gets none.  With 5min and 24h: 2min is Online,
\* 30min Offline, 48h Inactive.
ClassifyByAgeOfNewest ==
    ret.op = "classify" =>
        /\ \A p \in PcIds :
              LET recs == {r \in ret.result : r.pcId = p}
              IN  IF SamplesOf(store, p) = {} THEN recs = {}
                  ELSE \E m \in NewestOf(store, p) :
                         LET age == ret.now - m.createdAt
                             off == ret.thresholds.offlineAfter
                             ina == ret.thresholds.inactiveAfter
                         IN  /\ Cardinality(recs) = 1
                             /\ \A r \in recs :
                                  /\ age <= off => r.state = "Online"
                                  /\ (age > off /\ age <= ina) => r.state = "Offline"
                                  /\ age > ina => r.state = "Inactive"
        /\ \A r \in ret.result : r.pcId \in PcIds
        /\ StateOf(2, FiveMinutesOneDay) = "Online"
        /\ StateOf(30, FiveMinutesOneDay) = "Offline"
        /\ StateOf(48 * 60, FiveMinutesOneDay) = "Inactive"

\* with 5min and 24h, one source seen 2min ago and one seen 30min ago
ClassifiedOnlineAndOffline ==
    /\ ret.op = "classify"
    /\ ret.thresholds = FiveMinutesOneDay
    /\ \E a, b \in ret.result :
          /\ a.state = "Online" /\ b.state = "Offline"
          /\ \E m \in NewestOf(store, a.pcId) : ret.now - m.createdAt = 2
          /\ \E m \in NewestOf(store, b.pcId) : ret.now - m.createdAt = 30

\* C9: getOverviewStats yields no document when no sample lies in the trailing
\* 24h; otherwise one, whose totalPCs is the number of distinct pcIds among the
\* samples in that window and whose averages are the means over exactly those
\* samples, to two decimals.
StatsCountDistinctSources ==
    ret.op = "getOverviewStats" =>
        LET W == {s \in store : ret.now - s.createdAt <= 24 * 60}
        IN  IF W = {} THEN ret.result = <<>>
            ELSE /\ Len(ret.result) = 1
                 /\ ret.result[1].totalPCs = Cardinality({s.pcId : s \in W})
                 /\ IsMeanOf(ret.result[1].avgCpu, W, "cpu")
                 /\ IsMeanOf(ret.result[1].avgRam, W, "ram")
                 /\ IsMeanOf(ret.result[1].avgDisk, W, "disk")

\* stats over two sources of which only one is Online, one of them with
\* several samples in the window and a sample outside it
StatsWithOfflineSource ==
    /\ ret.op = "getOverviewStats"
    /\ Len(ret.result) = 1
    /\ ret.result[1].totalPCs = 2
    /\ Cardinality({s \in store : ret.now - s.createdAt <= 24 * 60}) = 3
    /\ Cardinality({p \in PcIds : \E m \in NewestOf(store, p) :
                       StateOf(ret.now - m.createdAt, FiveMinutesOneDay) = "Online"}) = 1

\* source p was Inactive under thr and its newest sample older than mia
PurgeDue(coll, p, now, thr, mia) ==
    \E m \in NewestOf(coll, p) :
        /\ now - m.createdAt > thr.inactiveAfter
        /\ now - m.createdAt > mia

\* source p shows in none of the views derived from the collection
InNoView(p, now) ==
    /\ \A R \in GetLatestDataResults(store) :
          /\ SamplesOf(R, p) = {}
          /\ \A thr \in Thresholds : \A r \in Classify(R, now, thr) : r.pcId # p
          /\ CalculateHourlyAverages(R, now)
                = CalculateHourlyAverages({r \in R : r.pcId # p}, now)
    /\ OverviewStats(store, now) = OverviewStats({s \in store : s.pcId # p}, now)

\* C10: after a cleanup with maxSampleAge = hours and any maxInactiveAge not
\* shorter than that, a source that was Inactive with its newest sample older
\* than maxInactiveAge has no sample left and shows in no derived view; any
\* other source keeps all its samples that are not older than maxSampleAge.
CleanupPurgesInactiveSources ==
    ret.op = "cleanupOldData" =>
        \A thr \in Thresholds : \A mia \in MaxInactiveAges :
            mia >= ret.hours * 60 =>
                \A p \in PcIds :
                    IF PurgeDue(before, p, ret.now, thr, mia)
                    THEN SamplesOf(store, p) = {} /\ InNoView(p, ret.now)
                    ELSE \A s \in SamplesOf(before, p) :
                            ret.now - s.createdAt <= ret.hours * 60 => s \in store

\* a cleanup that removed an inactive source for good and kept another one
InactiveSourcePurged ==
    /\ ret.op = "cleanupOldData"
    /\ \E p, q \in PcIds :
          /\ PurgeDue(before, p, ret.now, FiveMinutesOneDay, 1440)
          /\ Cardinality(SamplesOf(before, p)) >= 2
          /\ SamplesOf(store, p) = {}
          /\ SamplesOf(store, q) # {}

\* C11: at most one cleanup run is active at any time.
AtMostOneCleanupActive == Cardinality(runs) <= 1

\* the documents a cleanup call has removed
RemovedBy(rid) == {x.doc : x \in {y \in removed : y.rid = rid}}

\* C12: a sample that arrives while a cleanup call is in progress (it is
\* inserted after the call computed its cutoff) is never deleted by that call,
\* and when that call has finished the sample is in the collection unless a
\* later call removed it.
ArrivalsSurviveCleanup ==
    /\ \A x \in removed : x.doc.id < x.firstNewId
    /\ ret.op = "cleanupFinished" =>
          \A i \in ret.firstNewId..nextId :
              \/ \E s \in store : s.id = i
              \/ \E x \in removed : x.doc.id = i /\ x.rid > ret.rid

\* a cleanup that deleted a sample has finished, a sample that arrived at a
\* later instant while it ran is in the collection
SampleArrivedDuringCleanup ==
    /\ ret.op = "cleanupFinished"
    /\ ret.deletedCount > 0
    /\ runs = {}
    /\ \E s \in store : \E d \in RemovedBy(ret.rid) :
          s.id >= ret.firstNewId /\ s.pcId = d.pcId /\ s.createdAt > d.createdAt

\* C13: a cleanup call that fails has removed nothing.
FailedCleanupRemovedNothing ==
    ret.op = "cleanupFailed" => RemovedBy(ret.rid) = {} /\ ret.deletedCount = 0

ReadCalls ==
    {"getLatestData", "getHistoricalData", "getOverviewStats",
     "fetchHistoricalOverview", "classify"}

\* C14: the collection changes only by an accepted append, which adds exactly
\* one document, and by a cleanup, which only removes documents; the read
\* calls leave it as it was, and a document that stays in the collection
\* keeps every field.
OnlyAppendAndCleanupWrite ==
    /\ store # before =>
          \/ /\ ret.op = "append" /\ ret.result = "ok"
             /\ \E s \in store : s \notin before /\ store = before \cup {s}
          \/ /\ ret.op = "cleanupOldData"
             /\ store \subseteq before
    /\ ret.op \in ReadCalls => store = before
    /\ \A s \in store : \A t \in before : s.id = t.id => s = t

\* the historical query returned two samples of a source, after a cleanup had
\* removed an older one
HistoryReadAfterCleanup ==
    /\ ret.op = "getHistoricalData"
    /\ Len(ret.result) = 2
    /\ Cardinality(store) < nextId

StateOfSource(coll, p, now, thr) ==
    IF SamplesOf(coll, p) = {} THEN "Removed"
    ELSE LET m == CHOOSE x \in NewestOf(coll, p) : TRUE
         IN  StateOf(now - m.createdAt, thr)

StateRank(st) ==
    CASE st = "Online" -> 1 [] st = "Offline" -> 2 [] st = "Inactive" -> 3
      [] OTHER -> 4

\* a step in which a source got no new sample moves its state forward or
\* leaves it
AgesForward ==
    \A p \in PcIds : \A thr \in Thresholds :
        SamplesOf(store', p) \subseteq SamplesOf(store, p) =>
            StateRank(StateOfSource(store', p, clock', thr))
               >= StateRank(StateOfSource(store, p, clock, thr))

IsInactive(p, thr) == StateOfSource(store, p, clock, thr) = "Inactive"

\* C16: without a new sample a source's state only moves along Online,
\* Offline, Inactive, removed, never back (so it is Online again only through
\* an append for it); and a source that is Inactive is eventually removed by a
\* cleanup, unless a new sample arrives for it first.
StateMovesForwardUntilPurged ==
    /\ [][AgesForward]_vars
    /\ \A p \in PcIds : \A thr \in Thresholds :
          IsInactive(p, thr) ~> ~IsInactive(p, thr)

\* a cleanup has removed a source that had gone Inactive with a single sample,
\* while the other source is Offline
SilentSourceRemoved ==
    /\ ret.op = "cleanupOldData"
    /\ \E p, q \in PcIds :
          /\ Cardinality(SamplesOf(before, p)) = 1
          /\ StateOfSource(before, p, clock, FiveMinutesOneDay) = "Inactive"
          /\ SamplesOf(store, p) = {}
          /\ StateOfSource(store, q, clock, FiveMinutesOneDay) = "Offline"

\* loading is true exactly while some fetch is in flight
LoadingWhileInFlight == loading <=> inflight /= {}

\* once every fetch has settled, and the newest request (always one for the
\* current pcId) came back with data, that response is the one displayed
SettledShowsCurrent ==
    (/\ inflight = {}
     /\ [req |-> nextReq, pcId |-> pcId, outcome |-> "ok"] \in settled)
        => historicalData = [req |-> nextReq, pcId |-> pcId]

\* the only interval installed is the one of the effect for the current pcId:
\* the cleanup of the previous effect has cleared the other
TimerStopsWithEffect ==
    effectPc /= NoEffect => effectPc = pcId

\* C17: in PCCard loading is true exactly while a fetch is in flight, once all
\* fetches have settled historicalData is the response to the request issued
\* for the current pcId, and the interval of a cleaned-up effect starts no
\* fetch.
CardShowsCurrentPc ==
    /\ LoadingWhileInFlight
    /\ SettledShowsCurrent
    /\ TimerStopsWithEffect

=============================================================================
